---- MODULE Spec2Model ----
(***************************************************************************)
(* The ArgonOne lxpanel plugin (lxpanel/argonone.c) as a state machine.    *)
(*                                                                         *)
(* One thread, the GTK main loop, runs everything: the constructor, the    *)
(* "g-signal" callback argonone_dbus_signal, the button and menu handlers  *)
(* and the configuration handlers.  Every D-Bus method call goes through   *)
(* g_dbus_proxy_call_sync, which blocks that thread until the daemon       *)
(* replies or the call fails; a blocked call is a value of pc, and the     *)
(* return of the call is a step of its own.                                *)
(*                                                                         *)
(* Pointers are sequences: <<>> is NULL and <<x>> points to x.  A GVariant *)
(* is <<type, value>>.  gdouble temperatures are tenths of a degree.       *)
(***************************************************************************)
EXTENDS Integers, Sequences, FiniteSets, TLC

\* How many calls of argonone_update_view a behaviour may make.
MaxRefresh == 3

NULL == <<>>

Ptr(x) == <<x>>

Variant(type, v) == <<type, v>>

NOTIFY_VALUE_TEMPERATURE == "temperature"

NOTIFY_VALUE_FAN_SPEED == "fan_speed"

NOTIFY_VALUE_FAN_CONTROL_ENABLED == "fan_control_enabled"

NOTIFY_VALUE_POWER_CONTROL_ENABLED == "power_control_enabled"

\* aone->fan_speed before the first successful query.
FAN_SPEED_UNKNOWN == -1

\* aone->temperature after g_new0: all bits zero, 0.0.
TEMPERATURE_UNSET == 0

\* The fan speeds the daemon reports, and the temperatures (tenths of a degree).
Speeds == {0, 42, 100}

Temperatures == {385, 512}

\* The unique bus name of the daemon, as the sender of its signals.
Daemon == Ptr(":1.42")

\* sender_name is NULL for a signal the proxy synthesizes.
Senders == {NULL, Daemon}

\* The NotifyValue payloads "(sv)": the wire type of the value is fixed by the key;
\* "battery_level" stands for a key a later daemon adds.
NotifyValues ==
    {<<NOTIFY_VALUE_FAN_SPEED, Variant("i", s)>> : s \in Speeds}
    \cup {<<NOTIFY_VALUE_FAN_CONTROL_ENABLED, Variant("b", b)>> : b \in BOOLEAN}
    \cup {<<NOTIFY_VALUE_TEMPERATURE, Variant("d", t)>> : t \in Temperatures}
    \cup {<<NOTIFY_VALUE_POWER_CONTROL_ENABLED, Variant("b", b)>> : b \in BOOLEAN}
    \cup {<<"battery_level", Variant("i", 42)>>}

\* The signals the proxy hands to the "g-signal" callback: (signal_name, parameters).
Signals ==
    {<<"NotifyValue", p>> : p \in NotifyValues} \cup {<<"Shutdown", NULL>>}

\* What config_setting_lookup_int finds for a key: nothing, or an int.
SettingValues == {NULL, Ptr(0), Ptr(1)}

VARIABLES
    pc,                      \* where the main thread is
    proxy,                   \* aone->proxy
    subscribed,              \* "g-signal" is connected to argonone_dbus_signal
    popup_menu,              \* aone->popup_menu
    show_label,              \* aone->show_label
    include_temperature,     \* aone->include_temperature
    fan_speed,               \* aone->fan_speed
    temperature,             \* aone->temperature
    is_fan_control_enabled,  \* aone->is_fan_control_enabled
    icon_name,               \* the icon of aone->tray_icon
    label_visible,           \* visibility of aone->tray_label
    label_text,              \* text of aone->tray_label
    tooltip_text,            \* tooltip of aone->plugin
    last_call,               \* the handler that is running, or that ran last
    frame,                   \* the arguments of its call of _argonone_set_fan
    bus_calls,               \* the method calls it has made, in order
    n_update_view,           \* calls of argonone_update_view so far
    n_fan_changed            \* those with fan_changed = TRUE

model == <<fan_speed, temperature, is_fan_control_enabled>>

prefs == <<show_label, include_temperature>>

view == <<icon_name, label_visible, label_text, tooltip_text>>

refreshes == <<n_update_view, n_fan_changed>>

vars == <<pc, proxy, subscribed, popup_menu, show_label, include_temperature,
          fan_speed, temperature, is_fan_control_enabled, icon_name,
          label_visible, label_text, tooltip_text, frame, bus_calls, last_call,
          n_update_view, n_fan_changed>>

Handler(name, args) == [handler |-> name, args |-> args]

----
\* argonone_update_view

\* "%3d%%"
FormatSpeed(n) ==
    (IF n < 10 THEN "  " ELSE IF n < 100 THEN " " ELSE "") \o ToString(n) \o "%"

\* " / %4.1fC"
FormatTemperature(t) ==
    " / " \o (IF t < 100 THEN " " ELSE "")
          \o ToString(t \div 10) \o "." \o ToString(t % 10) \o "C"

StatusText(speed, temp, with_temp) ==
    (IF speed < 0 THEN " -- " ELSE FormatSpeed(speed))
    \o (IF with_temp THEN FormatTemperature(temp) ELSE "")

IconName(enabled, speed) ==
    IF ~enabled THEN "argonone-fan-paused"
    ELSE IF speed = 0 THEN "argonone-fan"
    ELSE IF speed <= 50 THEN "argonone-fan-medium"
    ELSE "argonone-fan-high"

\* Called last in a handler: it reads the fields the handler has just written.
argonone_update_view(fan_changed, config_updated) ==
    LET dirty == config_updated \/ fan_changed \/ include_temperature'
        status == StatusText(fan_speed', temperature', include_temperature')
    IN  /\ icon_name' = IF fan_changed
                        THEN IconName(is_fan_control_enabled', fan_speed')
                        ELSE icon_name
        /\ label_visible' = IF config_updated THEN show_label' ELSE label_visible
        /\ label_text' = IF dirty /\ show_label' THEN status ELSE label_text
        /\ tooltip_text' =
              IF ~dirty THEN tooltip_text
              ELSE IF ~show_label' THEN status
              ELSE IF config_updated THEN "ArgonOne fan"
              ELSE tooltip_text
        /\ n_update_view' = n_update_view + 1
        /\ n_fan_changed' = n_fan_changed + (IF fan_changed THEN 1 ELSE 0)

----
\* D-Bus calls

Call(method_name, parameters) ==
    [method |-> method_name, parameters |-> parameters,
     state |-> "pending", retval |-> NULL]

\* g_dbus_proxy_call_sync returns: the pending call gets its outcome.
Returned(calls, retval) ==
    [calls EXCEPT ![Len(calls)].state = IF retval = NULL THEN "error" ELSE "reply",
                  ![Len(calls)].retval = retval]

\* Mutant: the reply is fetched and dropped.
argonone_dbus_query_sync_drops_reply(retval, value) == value

\* The value argonone_dbus_query_sync leaves in *value.
argonone_dbus_query_sync(retval, value) ==
    IF retval = NULL THEN value ELSE retval[1]

\* The replies of a method that returns nothing: NULL on error, else "()".
VoidReplies == {NULL, Ptr("()")}

Init ==
    /\ pc = "constructor"
    /\ proxy = NULL
    /\ subscribed = FALSE
    /\ popup_menu = NULL
    /\ show_label = TRUE
    /\ include_temperature = FALSE
    /\ is_fan_control_enabled = TRUE
    /\ fan_speed = FAN_SPEED_UNKNOWN
    /\ temperature = TEMPERATURE_UNSET
    /\ icon_name = ""
    /\ label_visible = FALSE
    /\ label_text = ""
    /\ tooltip_text = "ArgonOne fan"
    /\ frame = NULL
    /\ bus_calls = <<>>
    /\ last_call = Handler("argonone_constructor", <<>>)
    /\ n_update_view = 0
    /\ n_fan_changed = 0

----
\* The constructor, from argonone_update_from_settings on (lines 345-368)

\* What argonone_update_from_settings leaves in a flag, given its lookup.
SettingFlag(lookup, flag) ==
    IF lookup = NULL THEN flag ELSE lookup[1] = 1

\* Mutant: the error is logged as a warning and the constructor goes on.
g_error_returns == FALSE

\* g_error() logs at G_LOG_LEVEL_ERROR, which aborts the process.
g_error_aborts == TRUE

\* The main loop dispatches a callback only when the thread is back in it.
MainLoopDispatches == pc = "idle"

constructor_connect(ShowLabel, IncludeTemperature, error) ==
    /\ pc = "constructor"
    /\ show_label' = SettingFlag(ShowLabel, show_label)
    /\ include_temperature' = SettingFlag(IncludeTemperature, include_temperature)
    /\ IF error /\ g_error_aborts
       THEN /\ pc' = "aborted"
            /\ UNCHANGED <<proxy, subscribed, bus_calls>>
       ELSE /\ proxy' = IF error THEN NULL ELSE Ptr("net.clusterhack.ArgonOne")
            /\ subscribed' = ~error
            /\ bus_calls' = <<Call("GetFanSpeed", NULL)>>
            /\ pc' = "GetFanSpeed"
    /\ last_call' = Handler("argonone_constructor", <<error>>)
    /\ UNCHANGED <<model, view, refreshes, popup_menu, frame>>

\* What a query can return: NULL when the call fails, else a reply from the daemon.
QueryReplies(values) ==
    IF proxy = NULL THEN {NULL} ELSE {NULL} \cup {Ptr(v) : v \in values}

\* Mutant: the reply is read into a zeroed local that is stored whatever happened.
constructor_GetFanSpeed_stores_local(retval) ==
    /\ pc = "GetFanSpeed"
    /\ fan_speed' = argonone_dbus_query_sync(retval, 0)
    /\ bus_calls' = Append(Returned(bus_calls, retval),
                           Call("GetFanControlEnabled", NULL))
    /\ pc' = "GetFanControlEnabled"
    /\ UNCHANGED <<proxy, subscribed, popup_menu, prefs, temperature,
                   is_fan_control_enabled, view, refreshes, frame, last_call>>

constructor_GetFanSpeed_returns(retval) ==
    /\ pc = "GetFanSpeed"
    /\ fan_speed' = argonone_dbus_query_sync(retval, fan_speed)
    /\ bus_calls' = Append(Returned(bus_calls, retval),
                           Call("GetFanControlEnabled", NULL))
    /\ pc' = "GetFanControlEnabled"
    /\ UNCHANGED <<proxy, subscribed, popup_menu, prefs, temperature,
                   is_fan_control_enabled, view, refreshes, frame, last_call>>

constructor_GetFanControlEnabled_returns(retval) ==
    /\ pc = "GetFanControlEnabled"
    /\ is_fan_control_enabled' =
          argonone_dbus_query_sync(retval, is_fan_control_enabled)
    /\ bus_calls' = Append(Returned(bus_calls, retval),
                           Call("GetTemperature", NULL))
    /\ pc' = "GetTemperature"
    /\ UNCHANGED <<proxy, subscribed, popup_menu, prefs, temperature,
                   fan_speed, view, refreshes, frame, last_call>>

\* The last query returns; gtk_widget_show_all; argonone_update_view; return.
constructor_GetTemperature_returns(retval) ==
    /\ pc = "GetTemperature"
    /\ temperature' = argonone_dbus_query_sync(retval, temperature)
    /\ bus_calls' = Returned(bus_calls, retval)
    /\ UNCHANGED <<proxy, subscribed, popup_menu, prefs, fan_speed,
                   is_fan_control_enabled, frame, last_call>>
    /\ argonone_update_view(TRUE, TRUE)
    /\ pc' = "idle"

----
\* The "g-signal" callback

\* Mutant: the check of sender_name is missing.
SenderIsSynthesized_unchecked(sender_name) == FALSE

SenderIsSynthesized(sender_name) == sender_name = NULL

\* Mutant: the two enabled flags are confused.
NotifyValue_any_enabled(event_name, value_var) ==
    LET same == [fan_speed |-> fan_speed,
                 is_fan_control_enabled |-> is_fan_control_enabled,
                 temperature |-> temperature,
                 fan_changed |-> FALSE]
    IN  IF event_name = NOTIFY_VALUE_FAN_SPEED
        THEN [same EXCEPT !.fan_speed = value_var[2], !.fan_changed = TRUE]
        ELSE IF event_name \in {NOTIFY_VALUE_FAN_CONTROL_ENABLED,
                                NOTIFY_VALUE_POWER_CONTROL_ENABLED}
        THEN [same EXCEPT !.is_fan_control_enabled = value_var[2],
                          !.fan_changed = TRUE]
        ELSE IF event_name = NOTIFY_VALUE_TEMPERATURE
        THEN [same EXCEPT !.temperature = value_var[2]]
        ELSE same

\* Mutant: the last branch is a plain else, and it refreshes the icon.
NotifyValue_plain_else(event_name, value_var) ==
    LET same == [fan_speed |-> fan_speed,
                 is_fan_control_enabled |-> is_fan_control_enabled,
                 temperature |-> temperature,
                 fan_changed |-> FALSE]
    IN  IF event_name = NOTIFY_VALUE_FAN_SPEED
        THEN [same EXCEPT !.fan_speed = value_var[2], !.fan_changed = TRUE]
        ELSE IF event_name = NOTIFY_VALUE_FAN_CONTROL_ENABLED
        THEN [same EXCEPT !.is_fan_control_enabled = value_var[2],
                          !.fan_changed = TRUE]
        ELSE [same EXCEPT !.temperature = value_var[2], !.fan_changed = TRUE]

\* Mutant: fan_changed is set only when the value differs from the field.
NotifyValue_on_change(event_name, value_var) ==
    LET same == [fan_speed |-> fan_speed,
                 is_fan_control_enabled |-> is_fan_control_enabled,
                 temperature |-> temperature,
                 fan_changed |-> FALSE]
    IN  IF event_name = NOTIFY_VALUE_FAN_SPEED
        THEN [same EXCEPT !.fan_speed = value_var[2],
                          !.fan_changed = value_var[2] # fan_speed]
        ELSE IF event_name = NOTIFY_VALUE_FAN_CONTROL_ENABLED
        THEN [same EXCEPT !.is_fan_control_enabled = value_var[2],
                          !.fan_changed = value_var[2] # is_fan_control_enabled]
        ELSE IF event_name = NOTIFY_VALUE_TEMPERATURE
        THEN [same EXCEPT !.temperature = value_var[2]]
        ELSE same

\* The NotifyValue branch: the fields after it, and fan_changed.
NotifyValue(event_name, value_var) ==
    LET same == [fan_speed |-> fan_speed,
                 is_fan_control_enabled |-> is_fan_control_enabled,
                 temperature |-> temperature,
                 fan_changed |-> FALSE]
    IN  IF event_name = NOTIFY_VALUE_FAN_SPEED
        THEN [same EXCEPT !.fan_speed = value_var[2], !.fan_changed = TRUE]
        ELSE IF event_name = NOTIFY_VALUE_FAN_CONTROL_ENABLED
        THEN [same EXCEPT !.is_fan_control_enabled = value_var[2],
                          !.fan_changed = TRUE]
        ELSE IF event_name = NOTIFY_VALUE_TEMPERATURE
        THEN [same EXCEPT !.temperature = value_var[2]]
        ELSE same

argonone_dbus_signal(sender_name, signal_name, parameters) ==
    /\ MainLoopDispatches
    /\ subscribed
    /\ last_call' = Handler("argonone_dbus_signal",
                            <<sender_name, signal_name, parameters>>)
    /\ frame' = NULL
    /\ bus_calls' = <<>>
    /\ UNCHANGED <<pc, proxy, subscribed, popup_menu, prefs>>
    /\ IF SenderIsSynthesized(sender_name)
       THEN UNCHANGED <<model, view, refreshes>>
       ELSE LET r == IF signal_name = "NotifyValue"
                     THEN NotifyValue(parameters[1], parameters[2])
                     ELSE [fan_speed |-> fan_speed,
                           is_fan_control_enabled |-> is_fan_control_enabled,
                           temperature |-> temperature,
                           fan_changed |-> FALSE]
            IN  /\ n_update_view < MaxRefresh
                /\ fan_speed' = r.fan_speed
                /\ is_fan_control_enabled' = r.is_fan_control_enabled
                /\ temperature' = r.temperature
                /\ argonone_update_view(r.fan_changed, FALSE)

----
\* Fan control: _argonone_set_fan and its callers

\* Mutant: speed 0 is taken for "keep current" too.
SpeedProvided_positive(speed) == speed > 0

\* -1 denotes "keep current"
SpeedProvided(speed) == speed >= 0

\* Mutant: the calls are sent without waiting for their replies.
argonone_set_fan_async(enabled, speed) ==
    /\ frame' = Ptr([enabled |-> enabled, fan_speed |-> speed])
    /\ bus_calls' =
          <<Call("SetFanControlEnabled", <<Variant("b", enabled)>>)>>
          \o (IF SpeedProvided(speed)
              THEN <<Call("SetFanSpeed", <<Variant("i", speed)>>)>> ELSE <<>>)
    /\ pc' = "idle"
    /\ UNCHANGED <<proxy, subscribed, prefs, model, view, refreshes>>

\* Mutant: the model is updated at once, as if the command had been applied.
argonone_set_fan_optimistic(enabled, speed) ==
    /\ frame' = Ptr([enabled |-> enabled, fan_speed |-> speed])
    /\ bus_calls' = <<Call("SetFanControlEnabled", <<Variant("b", enabled)>>)>>
    /\ pc' = "SetFanControlEnabled"
    /\ is_fan_control_enabled' = enabled
    /\ UNCHANGED <<proxy, subscribed, prefs, fan_speed, temperature, view,
                   refreshes>>

\* _argonone_set_fan up to its first blocking call.
argonone_set_fan(enabled, speed) ==
    /\ frame' = Ptr([enabled |-> enabled, fan_speed |-> speed])
    /\ bus_calls' = <<Call("SetFanControlEnabled", <<Variant("b", enabled)>>)>>
    /\ pc' = "SetFanControlEnabled"
    /\ UNCHANGED <<proxy, subscribed, prefs, model, view, refreshes>>

\* SetFanControlEnabled returns, with a reply or an error: the rest of
\* _argonone_set_fan up to its second blocking call or its return.
set_fan_SetFanControlEnabled_returns(retval) ==
    /\ pc = "SetFanControlEnabled"
    /\ IF SpeedProvided(frame[1].fan_speed)
       THEN /\ bus_calls' =
                  Append(Returned(bus_calls, retval),
                         Call("SetFanSpeed", <<Variant("i", frame[1].fan_speed)>>))
            /\ pc' = "SetFanSpeed"
       ELSE /\ bus_calls' = Returned(bus_calls, retval)
            /\ pc' = "idle"
    /\ UNCHANGED <<proxy, subscribed, popup_menu, prefs, model, view, refreshes,
                   frame, last_call>>

set_fan_SetFanSpeed_returns(retval) ==
    /\ pc = "SetFanSpeed"
    /\ bus_calls' = Returned(bus_calls, retval)
    /\ pc' = "idle"
    /\ UNCHANGED <<proxy, subscribed, popup_menu, prefs, model, view, refreshes,
                   frame, last_call>>

\* A menu item is activated: the menu exists.
MenuItem(name, enabled, speed) ==
    /\ MainLoopDispatches
    /\ popup_menu # NULL
    /\ last_call' = Handler(name, <<>>)
    /\ UNCHANGED popup_menu
    /\ argonone_set_fan(enabled, speed)

argonone_resume_fan == MenuItem("argonone_resume_fan", TRUE, -1)

argonone_pause_off_fan == MenuItem("argonone_pause_off_fan", FALSE, 0)

argonone_pause_max_fan == MenuItem("argonone_pause_max_fan", FALSE, 100)

argonone_pause_current_fan == MenuItem("argonone_pause_current_fan", FALSE, -1)

Buttons == {1, 2, 3}

argonone_button_press_event(button) ==
    /\ MainLoopDispatches
    /\ last_call' = Handler("argonone_button_press_event", <<>>)
    /\ IF button = 1
       THEN /\ UNCHANGED popup_menu
            /\ IF is_fan_control_enabled
               THEN argonone_set_fan(FALSE, 0)
               ELSE argonone_set_fan(TRUE, -1)
       ELSE /\ popup_menu' = IF button = 3 /\ popup_menu = NULL
                             THEN Ptr("GtkMenu") ELSE popup_menu
            /\ frame' = NULL
            /\ bus_calls' = <<>>
            /\ UNCHANGED <<pc, proxy, subscribed, prefs, model, view, refreshes>>

----
\* Configuration

argonone_configuration_changed(ShowLabel, IncludeTemperature) ==
    /\ MainLoopDispatches
    /\ n_update_view < MaxRefresh
    /\ last_call' = Handler("argonone_configuration_changed", <<>>)
    /\ show_label' = SettingFlag(ShowLabel, show_label)
    /\ include_temperature' = SettingFlag(IncludeTemperature, include_temperature)
    /\ frame' = NULL
    /\ bus_calls' = <<>>
    /\ UNCHANGED <<pc, proxy, subscribed, popup_menu, model>>
    /\ argonone_update_view(FALSE, TRUE)

\* The dialog of argonone_configure_dialog writes the two flags in place and
\* calls argonone_apply_configuration.
argonone_apply_configuration(label, temp) ==
    /\ MainLoopDispatches
    /\ n_update_view < MaxRefresh
    /\ last_call' = Handler("argonone_apply_configuration", <<>>)
    /\ show_label' = label
    /\ include_temperature' = temp
    /\ frame' = NULL
    /\ bus_calls' = <<>>
    /\ UNCHANGED <<pc, proxy, subscribed, popup_menu, model>>
    /\ argonone_update_view(FALSE, TRUE)

----
Next ==
    \/ \E ShowLabel \in SettingValues, IncludeTemperature \in SettingValues,
          error \in BOOLEAN :
          constructor_connect(ShowLabel, IncludeTemperature, error)
    \/ \E retval \in QueryReplies(Speeds) : constructor_GetFanSpeed_returns(retval)
    \/ \E retval \in QueryReplies(BOOLEAN) :
          constructor_GetFanControlEnabled_returns(retval)
    \/ \E retval \in QueryReplies(Temperatures) :
          constructor_GetTemperature_returns(retval)
    \/ \E sender_name \in Senders, s \in Signals :
          argonone_dbus_signal(sender_name, s[1], s[2])
    \/ \E retval \in VoidReplies : set_fan_SetFanControlEnabled_returns(retval)
    \/ \E retval \in VoidReplies : set_fan_SetFanSpeed_returns(retval)
    \/ argonone_resume_fan
    \/ argonone_pause_off_fan
    \/ argonone_pause_max_fan
    \/ argonone_pause_current_fan
    \/ \E button \in Buttons : argonone_button_press_event(button)
    \/ \E ShowLabel \in SettingValues, IncludeTemperature \in SettingValues :
          argonone_configuration_changed(ShowLabel, IncludeTemperature)
    \/ \E label \in BOOLEAN, temp \in BOOLEAN :
          argonone_apply_configuration(label, temp)

Spec == Init /\ [][Next]_vars

\* _argonone_set_fan on its own: any caller, any arguments.
SetFanSpeeds == {-1, 75}

set_fan_call(enabled, speed) ==
    /\ MainLoopDispatches
    /\ last_call' = Handler("_argonone_set_fan", <<>>)
    /\ UNCHANGED popup_menu
    /\ argonone_set_fan(enabled, speed)

SetFanNext ==
    \/ Next
    \/ \E enabled \in BOOLEAN, speed \in SetFanSpeeds : set_fan_call(enabled, speed)

SetFanSpec == Init /\ [][SetFanNext]_vars

\* Every blocking call returns: with a reply, an error, or at its timeout.
CallReturns ==
    \/ \E retval \in QueryReplies(Speeds) : constructor_GetFanSpeed_returns(retval)
    \/ \E retval \in QueryReplies(BOOLEAN) :
          constructor_GetFanControlEnabled_returns(retval)
    \/ \E retval \in QueryReplies(Temperatures) :
          constructor_GetTemperature_returns(retval)
    \/ \E retval \in VoidReplies : set_fan_SetFanControlEnabled_returns(retval)
    \/ \E retval \in VoidReplies : set_fan_SetFanSpeed_returns(retval)

FairSpec == Spec /\ WF_vars(CallReturns)
----
\* The claims

\* In a step that is not a stuttering step, last_call' names the handler the
\* step belongs to: a handler sets it on entry, and the return of a blocking
\* call happens inside the handler that made the call.
SignalArgs == last_call'.args

IsSignal == last_call'.handler = "argonone_dbus_signal"

IsNotifyValue ==
    IsSignal /\ SignalArgs[1] # NULL /\ SignalArgs[2] = "NotifyValue"

RecognizedKeys ==
    {NOTIFY_VALUE_TEMPERATURE, NOTIFY_VALUE_FAN_SPEED,
     NOTIFY_VALUE_FAN_CONTROL_ENABLED, NOTIFY_VALUE_POWER_CONTROL_ENABLED}

CommandStates == {"SetFanControlEnabled", "SetFanSpeed"}

QueryStates == {"GetFanSpeed", "GetFanControlEnabled", "GetTemperature"}

Notified(key, type, v) ==
    last_call = Handler("argonone_dbus_signal",
                        <<Daemon, "NotifyValue", <<key, Variant(type, v)>>>>)

\* C1: a NotifyValue notification with a sender and a recognized key sets the
\* field of that key to the value it carries and leaves the other fields of
\* DeviceState as they were; "power_control_enabled" has no field and leaves
\* all three as they were.
C1_RecognizedKeyUpdatesItsField ==
    [][IsNotifyValue /\ SignalArgs[3][1] \in RecognizedKeys =>
        LET key == SignalArgs[3][1]
            value == SignalArgs[3][2][2]
        IN  /\ key = NOTIFY_VALUE_FAN_SPEED =>
                  /\ fan_speed' = value
                  /\ UNCHANGED <<is_fan_control_enabled, temperature>>
            /\ key = NOTIFY_VALUE_FAN_CONTROL_ENABLED =>
                  /\ is_fan_control_enabled' = value
                  /\ UNCHANGED <<fan_speed, temperature>>
            /\ key = NOTIFY_VALUE_TEMPERATURE =>
                  /\ temperature' = value
                  /\ UNCHANGED <<fan_speed, is_fan_control_enabled>>
            /\ key = NOTIFY_VALUE_POWER_CONTROL_ENABLED => (UNCHANGED model)]_vars

\* The fan-control flag was just notified as FALSE, with the other two fields
\* holding values of their own.
C1_Witness ==
    /\ Notified(NOTIFY_VALUE_FAN_CONTROL_ENABLED, "b", FALSE)
    /\ model = <<42, 512, FALSE>>

\* A power_control_enabled notification has been handled while fan control is on.
C1_WitnessPower ==
    /\ Notified(NOTIFY_VALUE_POWER_CONTROL_ENABLED, "b", FALSE)
    /\ model = <<42, 512, TRUE>>

\* C2: a signal with no sender (sender_name = NULL) changes nothing, whatever
\* its name, key and value: DeviceState and the view stay as they were and
\* argonone_update_view is not called.
C2_NoSenderIsNoOp ==
    [][IsSignal /\ SignalArgs[1] = NULL =>
        (UNCHANGED <<model, view, refreshes, prefs, pc>>)]_vars

\* A fan_speed=100 notification without a sender was handled, and fan_speed is
\* not 100.
C2_Witness ==
    /\ last_call = Handler("argonone_dbus_signal",
                           <<NULL, "NotifyValue",
                             <<NOTIFY_VALUE_FAN_SPEED, Variant("i", 100)>>>>)
    /\ fan_speed = 42
    /\ n_update_view = 1

\* C3: a call _argonone_set_fan(enabled, speed) issues first one
\* SetFanControlEnabled(enabled), then one SetFanSpeed(speed) exactly when
\* speed >= 0, and nothing else, whether or not the first call fails.
C3_SetFanCommands ==
    frame # NULL =>
        LET f == frame[1]
            n == Len(bus_calls)
        IN  /\ n \in {1, 2}
            /\ bus_calls[1].method = "SetFanControlEnabled"
            /\ bus_calls[1].parameters = <<Variant("b", f.enabled)>>
            /\ n = 2 =>
                  /\ f.fan_speed >= 0
                  /\ bus_calls[1].state # "pending"
                  /\ bus_calls[2].method = "SetFanSpeed"
                  /\ bus_calls[2].parameters = <<Variant("i", f.fan_speed)>>
            /\ pc = "SetFanControlEnabled" => n = 1
            /\ pc = "SetFanSpeed" => n = 2
            /\ pc = "idle" => n = (IF f.fan_speed >= 0 THEN 2 ELSE 1)

\* _argonone_set_fan(TRUE, 75) has returned: the first call failed and
\* SetFanSpeed(75) was issued after it.
C3_Witness ==
    /\ pc = "idle"
    /\ frame = Ptr([enabled |-> TRUE, fan_speed |-> 75])
    /\ Len(bus_calls) = 2
    /\ bus_calls[1].state = "error"
    /\ bus_calls[2].method = "SetFanSpeed"
    /\ bus_calls[2].state = "reply"

\* _argonone_set_fan(FALSE, -1) has returned after one call.
C3_WitnessKeep ==
    /\ pc = "idle"
    /\ frame = Ptr([enabled |-> FALSE, fan_speed |-> -1])
    /\ Len(bus_calls) = 1
    /\ bus_calls[1].state = "reply"

ConstructorReturned ==
    pc = "idle" /\ last_call.handler = "argonone_constructor"

\* C4: when the three startup queries all succeed, DeviceState on return of
\* the constructor holds the three values returned, and argonone_update_view
\* has been called with fan_changed = TRUE exactly once.
C4_StartupQueriesSeedState ==
    (ConstructorReturned /\ \A i \in 1..3 : bus_calls[i].state = "reply") =>
        /\ fan_speed = bus_calls[1].retval[1]
        /\ is_fan_control_enabled = bus_calls[2].retval[1]
        /\ temperature = bus_calls[3].retval[1]
        /\ n_fan_changed = 1
        /\ n_update_view = 1

\* Startup with speed=42, enabled=true, temperature=51.2.
C4_Witness ==
    /\ ConstructorReturned
    /\ \A i \in 1..3 : bus_calls[i].state = "reply"
    /\ model = <<42, 512, TRUE>>
    /\ icon_name = "argonone-fan-medium"

StartupQueries == <<"GetFanSpeed", "GetFanControlEnabled", "GetTemperature">>

InConstructor ==
    last_call.handler = "argonone_constructor" /\ pc \notin {"constructor", "aborted"}

\* During and right after the startup queries: a query that failed has left
\* its field at the default (-1, TRUE, 0.0); the queries are issued once each,
\* in order, whatever fails; the constructor has returned exactly when the
\* third has returned, with one view update.
C5_Safety ==
    InConstructor =>
        /\ Len(bus_calls) \in 1..3
        /\ \A i \in 1..Len(bus_calls) : bus_calls[i].method = StartupQueries[i]
        /\ \A i \in 1..(Len(bus_calls) - 1) : bus_calls[i].state # "pending"
        /\ pc = "idle" <=> (Len(bus_calls) = 3 /\ bus_calls[3].state # "pending")
        /\ (bus_calls[1].state = "error" => fan_speed = FAN_SPEED_UNKNOWN)
        /\ (Len(bus_calls) >= 2 /\ bus_calls[2].state = "error"
              => is_fan_control_enabled = TRUE)
        /\ (Len(bus_calls) >= 3 /\ bus_calls[3].state = "error"
              => temperature = TEMPERATURE_UNSET)
        /\ (pc = "idle" => n_update_view = 1)

\* C5: every failed startup query leaves its field at the default and the
\* other queries are issued all the same, once each (C5_Safety); and once the
\* queries have started the constructor returns, since each call returns.
C5_FailedQueryKeepsDefault ==
    /\ []C5_Safety
    /\ (pc \in QueryStates) ~> ConstructorReturned

\* The constructor has returned after all three queries failed.
C5_Witness ==
    /\ ConstructorReturned
    /\ \A i \in 1..3 : bus_calls[i].state = "error"
    /\ model = <<FAN_SPEED_UNKNOWN, TEMPERATURE_UNSET, TRUE>>

\* Only the second query failed.
C5_WitnessOne ==
    /\ ConstructorReturned
    /\ bus_calls[1].state = "reply"
    /\ bus_calls[2].state = "error"
    /\ bus_calls[3].state = "reply"
    /\ model = <<100, 385, TRUE>>

\* The step delivers again the notification that was delivered last.
IsDuplicate == IsNotifyValue /\ last_call' = last_call

FanKeys == {NOTIFY_VALUE_FAN_SPEED, NOTIFY_VALUE_FAN_CONTROL_ENABLED}

\* C6, as claimed: the second of two equal deliveries in a row leaves
\* DeviceState as it was and raises no control-relevant refresh.
C6_DuplicateRaisesNoRefresh ==
    [][IsDuplicate => (UNCHANGED <<model, n_fan_changed>>)]_vars

\* C6, amended: the second of two equal deliveries in a row leaves DeviceState
\* and the view as they were, and raises one refresh like every delivery does,
\* control-relevant exactly when the key is fan_speed or fan_control_enabled.
C6_DuplicateKeepsState ==
    [][IsDuplicate =>
        /\ UNCHANGED <<model, view>>
        /\ n_update_view' = n_update_view + 1
        /\ n_fan_changed' = n_fan_changed
              + (IF SignalArgs[3][1] \in FanKeys THEN 1 ELSE 0)]_vars

\* fan_speed=42 was delivered twice after startup: three refreshes, all
\* control-relevant.
C6_Witness ==
    /\ Notified(NOTIFY_VALUE_FAN_SPEED, "i", 42)
    /\ fan_speed = 42
    /\ n_update_view = 3
    /\ n_fan_changed = 3

\* C7: a NotifyValue notification with a sender and a key that is not
\* recognized leaves DeviceState as it was and is not control-relevant: the
\* view is refreshed with fan_changed = FALSE.
C7_UnknownKeyIgnored ==
    [][IsNotifyValue /\ SignalArgs[3][1] \notin RecognizedKeys =>
        /\ UNCHANGED <<model, n_fan_changed, icon_name>>
        /\ n_update_view' = n_update_view + 1]_vars

\* A battery_level notification was handled after startup.
C7_Witness ==
    /\ last_call = Handler("argonone_dbus_signal",
                           <<Daemon, "NotifyValue",
                             <<"battery_level", Variant("i", 42)>>>>)
    /\ n_update_view = 2
    /\ n_fan_changed = 1
    /\ temperature = 512

CommandPending ==
    \E i \in 1..Len(bus_calls) :
        /\ bus_calls[i].state = "pending"
        /\ bus_calls[i].method \in CommandStates

\* C8, as claimed: while a command waits for its reply the main loop is free
\* to dispatch a notification.
C8_CommandsDoNotBlock == CommandPending => MainLoopDispatches

\* C8, amended: commands are blocking.  While a command waits for its reply
\* the main loop dispatches nothing; the only step taken is the return of
\* that call, so no notification is handled between the dispatch of a command
\* and its reply, and SetFanSpeed is sent after SetFanControlEnabled returned.
C8_CommandsBlock ==
    /\ [](CommandPending => ~MainLoopDispatches)
    /\ [][CommandPending =>
            LET n == Len(bus_calls)
            IN  /\ bus_calls[n].state = "pending"
                /\ \A i \in 1..(n - 1) : bus_calls[i].state # "pending"
                /\ Len(bus_calls') >= n
                /\ bus_calls'[n].state # "pending"
                /\ (UNCHANGED <<last_call, model, view, refreshes>>)]_vars

\* SetFanSpeed(0) waits for its reply after SetFanControlEnabled(FALSE) failed.
C8_Witness ==
    /\ pc = "SetFanSpeed"
    /\ CommandPending
    /\ bus_calls[1].state = "error"
    /\ bus_calls[2].parameters = <<Variant("i", 0)>>

\* C9: when the proxy cannot be created the constructor aborts: nothing is
\* subscribed, no query is issued, no view is refreshed, and no step follows.
\* Nothing else aborts: the only step into "aborted" is that one.
C9_ConnectionFailureIsFatal ==
    /\ [](last_call = Handler("argonone_constructor", <<TRUE>>) =>
            /\ pc = "aborted"
            /\ proxy = NULL
            /\ ~subscribed
            /\ bus_calls = <<>>
            /\ n_update_view = 0)
    /\ [](pc = "aborted" => last_call = Handler("argonone_constructor", <<TRUE>>))
    /\ [][(pc # "aborted" /\ pc' = "aborted") => pc = "constructor"]_vars
    /\ [][pc # "aborted"]_vars

\* The connection failed.
C9_Witness ==
    pc = "aborted" /\ last_call = Handler("argonone_constructor", <<TRUE>>)

\* A query failed and a command failed, and the plugin runs on.
C9_WitnessOthers ==
    /\ pc = "idle"
    /\ subscribed
    /\ frame # NULL
    /\ bus_calls[1].state = "error"
    /\ fan_speed = FAN_SPEED_UNKNOWN

\* C10: no step of a control command changes DeviceState, whether its calls
\* succeed or fail; DeviceState changes only in the startup queries and in the
\* notification handler.
C10_CommandsLeaveState ==
    /\ [][(pc \in CommandStates \/ pc' \in CommandStates) => (UNCHANGED model)]_vars
    /\ [][model' # model => (pc \in QueryStates \/ IsSignal)]_vars

\* The left click sent SetFanControlEnabled(FALSE) and SetFanSpeed(0), both
\* replied to, and the model still shows fan control on at 42%.
C10_Witness ==
    /\ pc = "idle"
    /\ last_call.handler = "argonone_button_press_event"
    /\ frame = Ptr([enabled |-> FALSE, fan_speed |-> 0])
    /\ Len(bus_calls) = 2
    /\ bus_calls[1].state = "reply"
    /\ bus_calls[2].state = "reply"
    /\ model = <<42, 512, TRUE>>
====
